---- MODULE Spec2Model ----
(***************************************************************************)
(* casepulse-backend, src/main.py: the search dispatcher (search_cases,    *)
(* search_cases_range, cerc_search), its date helpers, and the top-court   *)
(* change-detection monitor (supreme_monitor) with its snapshot files.     *)
(*                                                                         *)
(* Python strings are modelled as sequences of one-character strings, so   *)
(* that parsing, formatting, stripping and concatenation are computed.     *)
(***************************************************************************)
EXTENDS Integers, Sequences, FiniteSets, TLC

VARIABLES
    files,      \* monitor_data/: path -> serialized snapshot (DOMAIN = existing files)
    lastPoll,   \* history: key and scrape of the latest poll that returned a response
    trace,      \* the request being answered: what the handler did and what it returns
    torn,       \* path -> size in characters of a file whose text is no JSON document
    threads,    \* worker thread -> the poll it is running and the line it has reached
    lastWriter  \* history: the thread that last closed a snapshot file, and its list

vars == <<files, lastPoll, trace, torn, threads, lastWriter>>

----------------------------------------------------------------------------
(* Bounds of the model *)

\* longest result list an adapter's search / search_range returns
MaxResults == 2
\* longest result list the top-court adapter's monitor returns
MaxScrapeLen == 3

----------------------------------------------------------------------------
(* Python strings *)

Digits == <<"0", "1", "2", "3", "4", "5", "6", "7", "8", "9">>

IsDigit(c) == \E i \in DOMAIN Digits : Digits[i] = c

DigitVal(c) == (CHOOSE i \in DOMAIN Digits : Digits[i] = c) - 1

\* `c in s` for a one-character c
Contains(s, c) == \E i \in DOMAIN s : s[i] = c

Range(s) == {s[i] : i \in DOMAIN s}

\* s.split(sep) for a one-character separator
RECURSIVE Split(_, _)
Split(s, sep) ==
    IF ~Contains(s, sep) THEN <<s>>
    ELSE LET i == CHOOSE j \in DOMAIN s :
                      s[j] = sep /\ \A k \in 1..(j - 1) : s[k] # sep
         IN  <<SubSeq(s, 1, i - 1)>> \o Split(SubSeq(s, i + 1, Len(s)), sep)

\* int(field): the digits of a matched field (a leading blank is skipped)
RECURSIVE IntOf(_)
IntOf(f) ==
    IF f = <<>> THEN 0
    ELSE LET c == f[Len(f)]
             rest == SubSeq(f, 1, Len(f) - 1)
         IN  IF IsDigit(c) THEN 10 * IntOf(rest) + DigitVal(c) ELSE IntOf(rest)

\* two-digit, zero-padded (strftime %d, %m)
Pad2(n) == <<Digits[(n \div 10) + 1], Digits[(n % 10) + 1]>>

\* four-digit year (strftime %Y for the years 1000..9999 the inputs use)
Pad4(n) ==
    <<Digits[(n \div 1000) + 1], Digits[((n \div 100) % 10) + 1],
      Digits[((n \div 10) % 10) + 1], Digits[(n % 10) + 1]>>

----------------------------------------------------------------------------
(* datetime.strptime / strftime for the three-directive formats of main.py *)

\* a format is <<directive, literal, directive, literal, directive>>
FmtISO    == <<"%Y", "-", "%m", "-", "%d">>
FmtDelhi  == <<"%d", ".", "%m", ".", "%Y">>
FmtBombay == <<"%d", "-", "%m", "-", "%Y">>
FmtNclat  == <<"%d", "/", "%m", "/", "%Y">>

\* the regular expression _strptime uses for each directive
MatchDirective(dir, f) ==
    CASE dir = "%Y" -> Len(f) = 4 /\ \A i \in 1..4 : IsDigit(f[i])
      [] dir = "%m" ->
            \/ Len(f) = 2 /\ f[1] = "1" /\ f[2] \in {"0", "1", "2"}
            \/ Len(f) = 2 /\ f[1] = "0" /\ IsDigit(f[2]) /\ f[2] # "0"
            \/ Len(f) = 1 /\ IsDigit(f[1]) /\ f[1] # "0"
      [] dir = "%d" ->
            \/ Len(f) = 2 /\ f[1] = "3" /\ f[2] \in {"0", "1"}
            \/ Len(f) = 2 /\ f[1] \in {"1", "2"} /\ IsDigit(f[2])
            \/ Len(f) = 2 /\ f[1] \in {"0", " "} /\ IsDigit(f[2]) /\ f[2] # "0"
            \/ Len(f) = 1 /\ IsDigit(f[1]) /\ f[1] # "0"

IsLeap(y) == (y % 4 = 0 /\ y % 100 # 0) \/ y % 400 = 0

DaysInMonth(y, m) ==
    CASE m \in {1, 3, 5, 7, 8, 10, 12} -> 31
      [] m \in {4, 6, 9, 11} -> 30
      [] OTHER -> IF IsLeap(y) THEN 29 ELSE 28

\* the datetime constructor's range check
ValidDate(y, m, d) ==
    /\ y \in 1..9999
    /\ m \in 1..12
    /\ d \in 1..DaysInMonth(y, m)

NoDatetime == [ok |-> FALSE, y |-> 0, m |-> 0, d |-> 0]

FieldOf(fmt, fields, dir) ==
    IntOf(fields[CHOOSE i \in 1..3 : fmt[2 * i - 1] = dir])

\* datetime.strptime(s, fmt): ok = FALSE stands for the ValueError it raises
strptime(s, fmt) ==
    LET fields == Split(s, fmt[2])
    IN  IF /\ Len(fields) = 3
           /\ \A i \in 1..3 : MatchDirective(fmt[2 * i - 1], fields[i])
        THEN LET y == FieldOf(fmt, fields, "%Y")
                 m == FieldOf(fmt, fields, "%m")
                 d == FieldOf(fmt, fields, "%d")
             IN  IF ValidDate(y, m, d)
                 THEN [ok |-> TRUE, y |-> y, m |-> m, d |-> d]
                 ELSE NoDatetime
        ELSE NoDatetime

FormatDirective(dir, dt) ==
    CASE dir = "%Y" -> Pad4(dt.y)
      [] dir = "%m" -> Pad2(dt.m)
      [] dir = "%d" -> Pad2(dt.d)

\* dt.strftime(fmt)
strftime(dt, fmt) ==
    FormatDirective(fmt[1], dt) \o <<fmt[2]>> \o FormatDirective(fmt[3], dt)
        \o <<fmt[4]>> \o FormatDirective(fmt[5], dt)

\* the result of a date helper: the string returned, or the exception raised
Returned(s) == [ok |-> TRUE, val |-> s]
Raised == [ok |-> FALSE, val |-> <<>>]

Reformat(date_str, from, to) ==
    LET d == strptime(date_str, from)
    IN  IF d.ok THEN Returned(strftime(d, to)) ELSE Raised

\* (mutant) month and day written in the wrong order
convert_date_for_delhi_MonthFirst(date_str) ==
    Reformat(date_str, FmtISO, <<"%m", ".", "%d", ".", "%Y">>)

convert_date_for_delhi(date_str) == Reformat(date_str, FmtISO, FmtDelhi)

convert_date_for_bombay(date_str) == Reformat(date_str, FmtISO, FmtBombay)

\* (mutant) no pass-through for a string that holds a "/"
convert_date_for_nclat_NoPassThrough(date_str) ==
    IF Contains(date_str, "-") /\ Len(date_str) < 3 THEN Raised
    ELSE IF Contains(date_str, "-") /\ date_str[3] = "-"
         THEN Reformat(date_str, FmtBombay, FmtNclat)
    ELSE Reformat(date_str, FmtISO, FmtNclat)

convert_date_for_nclat(date_str) ==
    IF Contains(date_str, "/") THEN Returned(date_str)
    ELSE IF Contains(date_str, "-") /\ Len(date_str) < 3 THEN Raised  \* IndexError
    ELSE IF Contains(date_str, "-") /\ date_str[3] = "-"
         THEN Reformat(date_str, FmtBombay, FmtNclat)
    ELSE Reformat(date_str, FmtISO, FmtNclat)

----------------------------------------------------------------------------
(* Requests, records and adapter outcomes *)

\* result records are dicts; a field holds a str or None
PyStr(s) == [t |-> "str", v |-> s]
PyNone == [t |-> "None", v |-> ""]

RecA  == [case_number |-> PyStr("A-1"), judge |-> PyNone]
RecA2 == [case_number |-> PyStr("A-1"), judge |-> PyStr("J")]
RecB  == [case_number |-> PyStr("B-2"), judge |-> PyNone]

RECURSIVE SeqsUpTo(_, _)
SeqsUpTo(S, n) ==
    IF n = 0 THEN {<<>>}
    ELSE LET shorter == SeqsUpTo(S, n - 1)
         IN  shorter \cup {Append(s, x) : s \in {t \in shorter : Len(t) = n - 1}, x \in S}

\* what an adapter call does: returns a list of records, or raises
Ret(rs) == [ok |-> TRUE, val |-> rs]
Fails == [ok |-> FALSE, val |-> <<>>]

SearchOutcomes == {Fails} \cup {Ret(rs) : rs \in SeqsUpTo({RecA, RecB}, MaxResults)}

\* the date strings callers send
IsoDate   == <<"2", "0", "2", "4", "-", "0", "3", "-", "0", "5">>
IsoShort  == <<"2", "0", "2", "4", "-", "3", "-", "5">>
DashDate  == <<"0", "5", "-", "0", "3", "-", "2", "0", "2", "4">>
DotDate   == <<"0", "5", ".", "0", "3", ".", "2", "0", "2", "4">>
SlashDate == <<"0", "5", "/", "0", "3", "/", "2", "0", "2", "4">>
BadDay    == <<"2", "0", "2", "4", "-", "0", "2", "-", "3", "0">>

DateStrings == {<<>>, IsoDate, IsoShort, DashDate, DotDate, SlashDate, BadDay}

\* Optional[str]
Some(s) == [present |-> TRUE, str |-> s]
None == [present |-> FALSE, str |-> <<>>]

Courts == {"supreme", "delhi", "bombay", "nclat", "cerc", "all"}

Party == "ACME"

\* class SearchRequest
SearchRequest ==
    [partyName : {Party}, date : {None} \cup {Some(s) : s \in DateStrings}, court : Courts]

\* class SearchRangeRequest
SearchRangeRequest ==
    [partyName : {Party}, startDate : DateStrings, endDate : DateStrings, court : Courts]

\* class CercRequest
CercRequest == [month : {<<"0", "3">>}, party : {Party}]

\* the adapters a handler's branches can reach for a court selector
Selected(court) ==
    CASE court = "all" -> {"supreme", "delhi", "bombay"}
      [] court \in {"supreme", "delhi", "bombay", "nclat"} -> {court}
      [] OTHER -> {}

\* the date helpers on the strings callers send, computed once
DelhiTable == {<<s, convert_date_for_delhi(s)>> : s \in DateStrings}

BombayTable == {<<s, convert_date_for_bombay(s)>> : s \in DateStrings}

NclatTable == {<<s, convert_date_for_nclat(s)>> : s \in DateStrings}

Lookup(table, s) == (CHOOSE p \in table : p[1] = s)[2]

DelhiDate(s) == Lookup(DelhiTable, s)

BombayDate(s) == Lookup(BombayTable, s)

NclatDate(s) == Lookup(NclatTable, s)

----------------------------------------------------------------------------
(* The handler's running state: results, the adapter calls and date helper *)
(* calls made so far, the failures printed, and a propagating exception    *)

Start(op, request) ==
    [op |-> op, request |-> request, results |-> <<>>, calls |-> <<>>,
     norms |-> <<>>, printed |-> <<>>, raised |-> FALSE]

\* a date helper is called; its exception, if any, starts propagating
Norm(st, fn, arg, r) ==
    IF st.raised THEN st
    ELSE [st EXCEPT !.norms = Append(@, [fn |-> fn, arg |-> arg, ok |-> r.ok, val |-> r.val]),
                    !.raised = ~r.ok]

\* (mutant) the merge drops records already collected
CallExtendDedup(st, backend, entry, party, dates, outcome) ==
    IF st.raised THEN st
    ELSE [st EXCEPT !.calls = Append(@, [backend |-> backend, entry |-> entry,
                                          party |-> party, dates |-> dates,
                                          ok |-> outcome.ok, ret |-> outcome.val]),
                    !.results = IF outcome.ok
                                THEN @ \o SelectSeq(outcome.val,
                                                    LAMBDA x : x \notin Range(st.results))
                                ELSE @,
                    !.raised = ~outcome.ok]

\* results.extend(adapter.entry(party, *dates)); the adapter's exception propagates
CallExtend(st, backend, entry, party, dates, outcome) ==
    IF st.raised THEN st
    ELSE [st EXCEPT !.calls = Append(@, [backend |-> backend, entry |-> entry,
                                          party |-> party, dates |-> dates,
                                          ok |-> outcome.ok, ret |-> outcome.val]),
                    !.results = IF outcome.ok THEN @ \o outcome.val ELSE @,
                    !.raised = ~outcome.ok]

\* (mutant) the handler prints and lets the exception go on
ExceptPrintReraises(st, label) ==
    IF st.raised THEN [st EXCEPT !.printed = Append(@, label)] ELSE st

\* except Exception as e: print(label, e)
ExceptPrint(st, label) ==
    IF st.raised THEN [st EXCEPT !.printed = Append(@, label), !.raised = FALSE]
    ELSE st

\* a try block is skipped when an exception is already propagating
Try(st, body, label) == IF st.raised THEN st ELSE ExceptPrint(body, label)

----------------------------------------------------------------------------
(* search_cases: main.py 132-192 *)

\* (mutant) `request.date is None`
NoDateGivenIsNone(request) == ~request.date.present

\* `not request.date`
NoDateGiven(request) == ~request.date.present \/ request.date.str = <<>>

SearchSupreme(st, out) ==
    LET req == st.request
    IN  IF req.court \in {"supreme", "all"}
        THEN Try(st, CallExtend(st, "supreme", "search", req.partyName,
                                <<req.date.str>>, out["supreme"]),
                 "Supreme Court failed:")
        ELSE st

\* (mutant) the date is converted whatever the court selector
SearchDelhiAlwaysConverts(st, out) ==
    LET req == st.request
        conv == DelhiDate(req.date.str)
        s1 == Norm(st, "convert_date_for_delhi", req.date.str, conv)
    IN  IF req.court \in {"delhi", "all"}
        THEN Try(st, CallExtend(s1, "delhi", "search", req.partyName,
                                <<conv.val>>, out["delhi"]),
                 "Delhi High Court failed:")
        ELSE st

SearchDelhi(st, out) ==
    LET req == st.request
        conv == DelhiDate(req.date.str)
        s1 == IF req.court = "all"
              THEN Norm(st, "convert_date_for_delhi", req.date.str, conv)
              ELSE st
        delhi_date == IF req.court = "all" THEN conv.val ELSE req.date.str
    IN  IF req.court \in {"delhi", "all"}
        THEN Try(st, CallExtend(s1, "delhi", "search", req.partyName,
                                <<delhi_date>>, out["delhi"]),
                 "Delhi High Court failed:")
        ELSE st

\* (mutant) the single date is sent to the range entry point as start and end
SearchBombayViaRange(st, out) ==
    LET req == st.request
        conv == BombayDate(req.date.str)
        s1 == IF req.court = "all"
              THEN Norm(st, "convert_date_for_bombay", req.date.str, conv)
              ELSE st
        bombay_date == IF req.court = "all" THEN conv.val ELSE req.date.str
    IN  IF req.court \in {"bombay", "all"}
        THEN Try(st, CallExtend(s1, "bombay", "search_range", req.partyName,
                                <<bombay_date, bombay_date>>, out["bombay"]),
                 "Bombay High Court failed:")
        ELSE st

SearchBombay(st, out) ==
    LET req == st.request
        conv == BombayDate(req.date.str)
        s1 == IF req.court = "all"
              THEN Norm(st, "convert_date_for_bombay", req.date.str, conv)
              ELSE st
        bombay_date == IF req.court = "all" THEN conv.val ELSE req.date.str
    IN  IF req.court \in {"bombay", "all"}
        THEN Try(st, CallExtend(s1, "bombay", "search", req.partyName,
                                <<bombay_date>>, out["bombay"]),
                 "Bombay High Court failed:")
        ELSE st

SearchNclat(st, out) ==
    LET req == st.request
        conv == NclatDate(req.date.str)
        s1 == Norm(st, "convert_date_for_nclat", req.date.str, conv)
        s2 == Norm(s1, "convert_date_for_nclat", req.date.str, conv)
    IN  IF req.court = "nclat"
        THEN Try(st, CallExtend(s2, "nclat", "search_range", req.partyName,
                                <<conv.val, conv.val>>, out["nclat"]),
                 "NCLAT single-date failed:")
        ELSE st

\* the handler from its first line to its return
SearchCasesRun(request, out) ==
    LET st == Start("search_cases", request)
    IN  IF NoDateGiven(request) THEN st
        ELSE SearchNclat(SearchBombay(SearchDelhi(SearchSupreme(st, out), out), out), out)

----------------------------------------------------------------------------
(* search_cases_range: main.py 197-268 *)

RangeSupreme(st, out) ==
    LET req == st.request
    IN  IF req.court \in {"supreme", "all"}
        THEN Try(st, CallExtend(st, "supreme", "search_range", req.partyName,
                                <<req.startDate, req.endDate>>, out["supreme"]),
                 "Supreme Court range failed:")
        ELSE st

RangeDelhi(st, out) ==
    LET req == st.request
        cs == DelhiDate(req.startDate)
        ce == DelhiDate(req.endDate)
        s1 == IF req.court = "all"
              THEN Norm(Norm(st, "convert_date_for_delhi", req.startDate, cs),
                        "convert_date_for_delhi", req.endDate, ce)
              ELSE st
        delhi_start == IF req.court = "all" THEN cs.val ELSE req.startDate
        delhi_end == IF req.court = "all" THEN ce.val ELSE req.endDate
    IN  IF req.court \in {"delhi", "all"}
        THEN Try(st, CallExtend(s1, "delhi", "search_range", req.partyName,
                                <<delhi_start, delhi_end>>, out["delhi"]),
                 "Delhi High Court range failed:")
        ELSE st

RangeBombay(st, out) ==
    LET req == st.request
        cs == BombayDate(req.startDate)
        ce == BombayDate(req.endDate)
        s1 == IF req.court = "all"
              THEN Norm(Norm(st, "convert_date_for_bombay", req.startDate, cs),
                        "convert_date_for_bombay", req.endDate, ce)
              ELSE st
        bombay_start == IF req.court = "all" THEN cs.val ELSE req.startDate
        bombay_end == IF req.court = "all" THEN ce.val ELSE req.endDate
    IN  IF req.court \in {"bombay", "all"}
        THEN Try(st, CallExtend(s1, "bombay", "search_range", req.partyName,
                                <<bombay_start, bombay_end>>, out["bombay"]),
                 "Bombay High Court range failed:")
        ELSE st

\* (mutant) the tribunal block also runs under "all"
RangeNclatUnderAll(st, out) ==
    LET req == st.request
        cs == NclatDate(req.startDate)
        ce == NclatDate(req.endDate)
        s1 == Norm(Norm(st, "convert_date_for_nclat", req.startDate, cs),
                   "convert_date_for_nclat", req.endDate, ce)
    IN  IF req.court \in {"nclat", "all"}
        THEN Try(st, CallExtend(s1, "nclat", "search_range", req.partyName,
                                <<cs.val, ce.val>>,
                                IF "nclat" \in DOMAIN out THEN out["nclat"] ELSE Fails),
                 "NCLAT range failed:")
        ELSE st

RangeNclat(st, out) ==
    LET req == st.request
        cs == NclatDate(req.startDate)
        ce == NclatDate(req.endDate)
        s1 == Norm(Norm(st, "convert_date_for_nclat", req.startDate, cs),
                   "convert_date_for_nclat", req.endDate, ce)
    IN  IF req.court = "nclat"
        THEN Try(st, CallExtend(s1, "nclat", "search_range", req.partyName,
                                <<cs.val, ce.val>>, out["nclat"]),
                 "NCLAT range failed:")
        ELSE st

SearchCasesRangeRun(request, out) ==
    LET st == Start("search_cases_range", request)
    IN  RangeNclat(RangeBombay(RangeDelhi(RangeSupreme(st, out), out), out), out)

----------------------------------------------------------------------------
(* cerc_search: main.py 334-341 *)

CercSearchRun(req, outcome) ==
    LET st == Start("cerc_search", req)
        s1 == Try(st, CallExtend(st, "cerc", "search", req.party, <<req.month>>, outcome),
                  "CERC failed:")
    IN  s1

----------------------------------------------------------------------------
(* The snapshot files and the top-court monitor: main.py 273-308 *)

RecC == [case_number |-> PyStr("C-3"), judge |-> PyNone]

KwAB  == <<"a", " ", "b">>
KwA_B == <<"a", "_", "b">>
KwC   == <<" ", "c">>

ModeParty == <<"p", "a", "r", "t", "y">>

\* class MonitorRequest (year is not read by supreme_monitor)
MonitorRequest == [keyword : {KwAB, KwA_B, KwC}, mode : {ModeParty}]

\* what supreme_court.monitor can return for a keyword: the current full result set
Scrapes(keyword) ==
    IF keyword = KwC THEN SeqsUpTo({RecB}, MaxScrapeLen)
    ELSE SeqsUpTo({RecA, RecA2, RecB}, MaxScrapeLen) \cup {<<RecA, RecB, RecC>>}

MonitorOutcomes(keyword) == {Fails} \cup {Ret(rs) : rs \in Scrapes(keyword)}

DATA_DIR == <<"m", "o", "n", "i", "t", "o", "r", "_", "d", "a", "t", "a">>

\* str.strip()
RECURSIVE Strip(_)
Strip(s) ==
    IF s = <<>> THEN s
    ELSE IF s[1] = " " THEN Strip(Tail(s))
    ELSE IF s[Len(s)] = " " THEN Strip(SubSeq(s, 1, Len(s) - 1))
    ELSE s

\* str.replace(old, new) for one-character old and new
Replace(s, old, new) == [i \in DOMAIN s |-> IF s[i] = old THEN new ELSE s[i]]

\* f"{keyword.replace(' ', '_')}_{mode}.json"
Filename(keyword, mode) ==
    Replace(keyword, " ", "_") \o <<"_">> \o mode \o <<".", "j", "s", "o", "n">>

\* os.path.join(DATA_DIR, filename)
PathJoin(dir, filename) == dir \o <<"/">> \o filename

\* json.dump / json.load of a list of dicts of str-or-None fields
JsonEncodeValue(v) ==
    IF v.t = "None" THEN [j |-> "null", v |-> ""] ELSE [j |-> "string", v |-> v.v]

\* (mutant) null read back as the string "null"
JsonDecodeValueNullAsString(e) ==
    IF e.j = "null" THEN PyStr("null") ELSE PyStr(e.v)

JsonDecodeValue(e) ==
    IF e.j = "null" THEN PyNone ELSE PyStr(e.v)

json_dump(rs) ==
    [i \in DOMAIN rs |-> [case_number |-> JsonEncodeValue(rs[i].case_number),
                          judge |-> JsonEncodeValue(rs[i].judge)]]

json_load(doc) ==
    [i \in DOMAIN doc |-> [case_number |-> JsonDecodeValue(doc[i].case_number),
                           judge |-> JsonDecodeValue(doc[i].judge)]]

\* os.path.exists(path)
Exists(fs, path) == path \in DOMAIN fs

\* (mutant) the file is opened for append: the new list lands after the old one
WriteFileAppends(fs, path, doc) ==
    [p \in DOMAIN fs \cup {path} |->
        IF p = path THEN (IF path \in DOMAIN fs THEN fs[path] ELSE <<>>) \o doc ELSE fs[p]]

\* open(path, "w") ... json.dump: the file is created or replaced
WriteFile(fs, path, doc) ==
    [p \in DOMAIN fs \cup {path} |-> IF p = path THEN doc ELSE fs[p]]

\* old_data = []; if os.path.exists(path): old_data = json.load(f)
LoadOld(fs, path) == IF Exists(fs, path) THEN json_load(fs[path]) ELSE <<>>

\* (mutant) membership decided by case_number alone
NewItemsByCaseNumber(all_results, old_data) ==
    SelectSeq(all_results,
              LAMBDA x : x.case_number \notin {y.case_number : y \in Range(old_data)})

\* [x for x in all_results if x not in old_data]
NewItems(all_results, old_data) ==
    SelectSeq(all_results, LAMBDA x : x \notin Range(old_data))

\* (mutant) nothing is written, and no_change reported, when no item is new
SupremeMonitorRunSkipsEmptyDelta(req, outcome, fs, prev) ==
    LET keyword == Strip(req.keyword)
        mode == req.mode
        filename == Filename(keyword, mode)
        path == PathJoin(DATA_DIR, filename)
        all_results == outcome.val
        old_data == LoadOld(fs, path)
        base == [op |-> "supreme_monitor", request |-> req, prev |-> prev,
                 calls |-> <<[backend |-> "supreme", entry |-> "monitor",
                              keyword |-> keyword, mode |-> mode, ok |-> outcome.ok,
                              ret |-> outcome.val]>>,
                 path |-> path, old_data |-> <<>>, writes |-> <<>>,
                 raised |-> TRUE, response |-> [status |-> "none"]]
    IN  IF ~outcome.ok THEN base
        ELSE IF old_data = all_results \/ NewItems(all_results, old_data) = <<>>
        THEN [base EXCEPT !.old_data = old_data, !.raised = FALSE,
                          !.response = [status |-> "no_change",
                                        message |-> "No new updates",
                                        count |-> Len(all_results),
                                        file |-> filename]]
        ELSE [base EXCEPT !.old_data = old_data, !.raised = FALSE,
                          !.writes = <<[path |-> path, doc |-> json_dump(all_results)]>>,
                          !.response = [status |-> "updated",
                                        message |-> "New judgments found",
                                        new_items |-> NewItems(all_results, old_data),
                                        total |-> Len(all_results),
                                        file |-> filename]]

\* (mutant) the lists are compared as sets of records
SupremeMonitorRunComparesAsSets(req, outcome, fs, prev) ==
    LET keyword == Strip(req.keyword)
        mode == req.mode
        filename == Filename(keyword, mode)
        path == PathJoin(DATA_DIR, filename)
        all_results == outcome.val
        old_data == LoadOld(fs, path)
        base == [op |-> "supreme_monitor", request |-> req, prev |-> prev,
                 calls |-> <<[backend |-> "supreme", entry |-> "monitor",
                              keyword |-> keyword, mode |-> mode, ok |-> outcome.ok,
                              ret |-> outcome.val]>>,
                 path |-> path, old_data |-> <<>>, writes |-> <<>>,
                 raised |-> TRUE, response |-> [status |-> "none"]]
    IN  IF ~outcome.ok THEN base
        ELSE IF Range(old_data) = Range(all_results)
        THEN [base EXCEPT !.old_data = old_data, !.raised = FALSE,
                          !.response = [status |-> "no_change",
                                        message |-> "No new updates",
                                        count |-> Len(all_results),
                                        file |-> filename]]
        ELSE [base EXCEPT !.old_data = old_data, !.raised = FALSE,
                          !.writes = <<[path |-> path, doc |-> json_dump(all_results)]>>,
                          !.response = [status |-> "updated",
                                        message |-> "New judgments found",
                                        new_items |-> NewItems(all_results, old_data),
                                        total |-> Len(all_results),
                                        file |-> filename]]

\* (mutant) the snapshot file is opened for writing before the scrape
SupremeMonitorRunTruncatesFirst(req, outcome, fs, prev) ==
    LET keyword == Strip(req.keyword)
        mode == req.mode
        filename == Filename(keyword, mode)
        path == PathJoin(DATA_DIR, filename)
        all_results == outcome.val
        old_data == LoadOld(fs, path)
        base == [op |-> "supreme_monitor", request |-> req, prev |-> prev,
                 calls |-> <<[backend |-> "supreme", entry |-> "monitor",
                              keyword |-> keyword, mode |-> mode, ok |-> outcome.ok,
                              ret |-> outcome.val]>>,
                 path |-> path, old_data |-> <<>>, writes |-> <<>>,
                 raised |-> TRUE, response |-> [status |-> "none"]]
    IN  IF ~outcome.ok THEN [base EXCEPT !.writes = <<[path |-> path, doc |-> <<>>]>>]
        ELSE IF old_data = all_results
        THEN [base EXCEPT !.old_data = old_data, !.raised = FALSE,
                          !.response = [status |-> "no_change",
                                        message |-> "No new updates",
                                        count |-> Len(all_results),
                                        file |-> filename]]
        ELSE [base EXCEPT !.old_data = old_data, !.raised = FALSE,
                          !.writes = <<[path |-> path, doc |-> json_dump(all_results)]>>,
                          !.response = [status |-> "updated",
                                        message |-> "New judgments found",
                                        new_items |-> NewItems(all_results, old_data),
                                        total |-> Len(all_results),
                                        file |-> filename]]

\* the handler from its first line to its return (or to the exception leaving it)
SupremeMonitorRun(req, outcome, fs, prev) ==
    LET keyword == Strip(req.keyword)
        mode == req.mode
        filename == Filename(keyword, mode)
        path == PathJoin(DATA_DIR, filename)
        all_results == outcome.val
        old_data == LoadOld(fs, path)
        base == [op |-> "supreme_monitor", request |-> req, prev |-> prev,
                 calls |-> <<[backend |-> "supreme", entry |-> "monitor",
                              keyword |-> keyword, mode |-> mode, ok |-> outcome.ok,
                              ret |-> outcome.val]>>,
                 path |-> path, old_data |-> <<>>, writes |-> <<>>,
                 raised |-> TRUE, response |-> [status |-> "none"]]
    IN  IF ~outcome.ok THEN base
        ELSE IF old_data = all_results
        THEN [base EXCEPT !.old_data = old_data, !.raised = FALSE,
                          !.response = [status |-> "no_change",
                                        message |-> "No new updates",
                                        count |-> Len(all_results),
                                        file |-> filename]]
        ELSE [base EXCEPT !.old_data = old_data, !.raised = FALSE,
                          !.writes = <<[path |-> path, doc |-> json_dump(all_results)]>>,
                          !.response = [status |-> "updated",
                                        message |-> "New judgments found",
                                        new_items |-> NewItems(all_results, old_data),
                                        total |-> Len(all_results),
                                        file |-> filename]]

\* the files after the handler's writes
RECURSIVE ApplyWrites(_, _)
ApplyWrites(fs, ws) ==
    IF ws = <<>> THEN fs
    ELSE ApplyWrites(WriteFile(fs, Head(ws).path, Head(ws).doc), Tail(ws))

----------------------------------------------------------------------------
(* supreme_monitor line by line: the route is a plain `def`, which the     *)
(* framework runs on a pool of worker threads, so two polls can be between *)
(* any two of its file operations at the same time                         *)

Threads == {1, 2}

KwSlash == <<"a", "/", "b">>

\* the requests the worker threads serve, and what the scrape can return
ConcRequest == [keyword : {KwAB, KwSlash}, mode : {ModeParty}]
ConcScrapes == {<<>>, <<RecA>>, <<RecB>>, <<RecA, RecB>>}
ConcOutcomes == {Fails} \cup {Ret(rs) : rs \in ConcScrapes}

\* a thread of the pool with no request
IdleThread ==
    [pc |-> "idle", request |-> [keyword |-> <<>>, mode |-> <<>>],
     all_results |-> <<>>, path |-> <<>>, old_data |-> <<>>,
     loaded |-> "none", wrote |-> FALSE, raised |-> FALSE,
     status |-> "none", new_items |-> <<>>]

NoWriter == [thread |-> 0, all_results |-> <<>>]

\* len() of the field values the records carry
PyLen(v) == IF v = "J" THEN 1 ELSE IF v = "" THEN 0 ELSE 3

\* characters json.dump(..., indent=2) writes for one value, one dict, a list
JsonValueLen(e) == IF e.j = "null" THEN 4 ELSE PyLen(e.v) + 2

JsonDictLen(d) ==
    4 + 19 + JsonValueLen(d.case_number) + 2 + 13 + JsonValueLen(d.judge) + 1 + 3

RECURSIVE JsonDictsLen(_)
JsonDictsLen(doc) ==
    IF doc = <<>> THEN 0 ELSE JsonDictLen(Head(doc)) + JsonDictsLen(Tail(doc))

JsonTextLen(doc) ==
    IF doc = <<>> THEN 2
    ELSE 2 + JsonDictsLen(doc) + 2 * (Len(doc) - 1) + 2

\* the directory part of a path: up to its last "/"
RECURSIVE DirName(_)
DirName(path) ==
    IF path = <<>> THEN <<>>
    ELSE IF path[Len(path)] = "/" THEN SubSeq(path, 1, Len(path) - 1)
    ELSE DirName(SubSeq(path, 1, Len(path) - 1))

\* open(path, "w") raises FileNotFoundError unless the directory exists; the
\* only directory made is DATA_DIR
CanOpenForWrite(path) == DirName(path) = DATA_DIR

\* the size of the file at path
FileSize(fs, tn, path) ==
    IF path \in DOMAIN tn THEN tn[path] ELSE JsonTextLen(fs[path])

\* (mutant) the text is written after what the file holds
LandsWholeAppended(fs, tn, path, doc) == FileSize(fs, tn, path) = 0

\* the buffered text reaches the file at close, from the thread's own offset
\* 0: the file is the new document unless it already holds a longer text,
\* whose tail then follows the document
LandsWhole(fs, tn, path, doc) == JsonTextLen(doc) >= FileSize(fs, tn, path)

\* lines 276-282: strip, scrape, file name
ScrapeThread(req, outcome) ==
    LET keyword == Strip(req.keyword)
        started == [IdleThread EXCEPT !.request = req,
                                      !.path = PathJoin(DATA_DIR, Filename(keyword, req.mode))]
    IN  IF outcome.ok
        THEN [started EXCEPT !.pc = "exists", !.all_results = outcome.val]
        ELSE [started EXCEPT !.pc = "done", !.raised = TRUE]

\* lines 289-297: the comparison, the early return, the delta
CompareThread(t, old_data, loaded) ==
    IF old_data = t.all_results
    THEN [t EXCEPT !.pc = "done", !.old_data = old_data, !.loaded = loaded,
                   !.status = "no_change"]
    ELSE [t EXCEPT !.pc = "open_w", !.old_data = old_data, !.loaded = loaded,
                   !.new_items = NewItems(t.all_results, old_data)]

\* lines 284-285: old_data = []; if os.path.exists(path)
ExistsThread(t, fs) ==
    IF Exists(fs, t.path) THEN [t EXCEPT !.pc = "load"]
    ELSE CompareThread(t, <<>>, "absent")

\* (mutant) a file that does not parse is read as an empty snapshot
LoadThreadTornAsEmpty(t, fs, tn) ==
    IF t.path \in DOMAIN tn
    THEN CompareThread(t, <<>>, "torn")
    ELSE CompareThread(t, json_load(fs[t.path]), "whole")

\* lines 286-287: open(path, "r"), json.load(f); JSONDecodeError leaves the handler
LoadThread(t, fs, tn) ==
    IF t.path \in DOMAIN tn
    THEN [t EXCEPT !.pc = "done", !.loaded = "torn", !.raised = TRUE]
    ELSE CompareThread(t, json_load(fs[t.path]), "whole")

----------------------------------------------------------------------------
(* The state machine *)

Idle == [op |-> "idle"]

NoPoll == [polled |-> FALSE, ok |-> FALSE, keyword |-> <<>>, mode |-> <<>>, scraped |-> <<>>]

Init ==
    /\ files = [p \in {} |-> <<>>]
    /\ lastPoll = NoPoll
    /\ trace = Idle
    /\ torn = [p \in {} |-> 0]
    /\ threads = [t \in Threads |-> IdleThread]
    /\ lastWriter = NoWriter

\* POST /api/search
search_cases ==
    /\ trace.op = "idle"
    /\ \E request \in SearchRequest :
         \E out \in [Selected(request.court) -> SearchOutcomes] :
            trace' = SearchCasesRun(request, out)
    /\ UNCHANGED <<files, lastPoll, torn, threads, lastWriter>>

\* POST /api/search-range
search_cases_range ==
    /\ trace.op = "idle"
    /\ \E request \in SearchRangeRequest :
         \E out \in [Selected(request.court) -> SearchOutcomes] :
            trace' = SearchCasesRangeRun(request, out)
    /\ UNCHANGED <<files, lastPoll, torn, threads, lastWriter>>

\* POST /api/cerc/search
cerc_search ==
    /\ trace.op = "idle"
    /\ \E req \in CercRequest : \E outcome \in SearchOutcomes :
         trace' = CercSearchRun(req, outcome)
    /\ UNCHANGED <<files, lastPoll, torn, threads, lastWriter>>

\* POST /api/supreme/monitor
supreme_monitor ==
    /\ trace.op = "idle"
    /\ \E req \in MonitorRequest : \E outcome \in MonitorOutcomes(req.keyword) :
         /\ trace' = LET run == SupremeMonitorRun(req, outcome, files, lastPoll)
                     IN  IF outcome.ok /\ run.path \in DOMAIN torn
                         THEN [run EXCEPT !.raised = TRUE, !.writes = <<>>,   \* JSONDecodeError
                                          !.response = [status |-> "none"]]
                         ELSE run
         /\ files' = ApplyWrites(files, trace'.writes)
         /\ torn' = [p \in DOMAIN torn \ {w.path : w \in Range(trace'.writes)} |-> torn[p]]
         /\ lastPoll' = [polled |-> TRUE, ok |-> outcome.ok, keyword |-> req.keyword,
                         mode |-> req.mode, scraped |-> outcome.val]
    /\ UNCHANGED <<threads, lastWriter>>

\* the response (or the error) has gone back to the caller; the next request is taken
Respond ==
    /\ trace.op # "idle"
    /\ trace' = Idle
    /\ UNCHANGED <<files, lastPoll, torn, threads, lastWriter>>

\* a worker thread takes a poll request and scrapes (line 279)
thread_scrape ==
    \E t \in Threads :
        /\ threads[t].pc = "idle"
        /\ \E req \in ConcRequest : \E outcome \in ConcOutcomes :
             threads' = [threads EXCEPT ![t] = ScrapeThread(req, outcome)]
        /\ UNCHANGED <<files, lastPoll, trace, torn, lastWriter>>

\* os.path.exists(path) (line 285)
thread_exists ==
    \E t \in Threads :
        /\ threads[t].pc = "exists"
        /\ threads' = [threads EXCEPT ![t] = ExistsThread(threads[t], files)]
        /\ UNCHANGED <<files, lastPoll, trace, torn, lastWriter>>

\* open for reading and json.load (lines 286-287), then lines 289-297
thread_load ==
    \E t \in Threads :
        /\ threads[t].pc = "load"
        /\ threads' = [threads EXCEPT ![t] = LoadThread(threads[t], files, torn)]
        /\ UNCHANGED <<files, lastPoll, trace, torn, lastWriter>>

\* open(path, "w") (line 299): the file is created or cut to length 0
thread_open_w ==
    \E t \in Threads :
        /\ threads[t].pc = "open_w"
        /\ IF CanOpenForWrite(threads[t].path)
           THEN /\ files' = WriteFile(files, threads[t].path, <<>>)
                /\ torn' = [p \in DOMAIN torn \cup {threads[t].path} |->
                               IF p = threads[t].path THEN 0 ELSE torn[p]]
                /\ threads' = [threads EXCEPT ![t].pc = "dump"]
           ELSE /\ threads' = [threads EXCEPT ![t].pc = "done", ![t].raised = TRUE]
                /\ UNCHANGED <<files, torn>>
        /\ UNCHANGED <<lastPoll, trace, lastWriter>>

\* json.dump and the end of the with block (line 300), then the return (302-308)
thread_dump ==
    \E t \in Threads :
        LET path == threads[t].path
            doc == json_dump(threads[t].all_results)
        IN  /\ threads[t].pc = "dump"
            /\ IF LandsWhole(files, torn, path, doc)
               THEN /\ files' = WriteFile(files, path, doc)
                    /\ torn' = [p \in DOMAIN torn \ {path} |-> torn[p]]
               ELSE /\ files' = WriteFile(files, path, <<>>)
                    /\ torn' = [p \in DOMAIN torn \cup {path} |->
                                   IF p = path THEN FileSize(files, torn, path) ELSE torn[p]]
            /\ threads' = [threads EXCEPT ![t].pc = "done", ![t].wrote = TRUE,
                                          ![t].status = "updated"]
            /\ lastWriter' = [thread |-> t, all_results |-> threads[t].all_results]
            /\ UNCHANGED <<lastPoll, trace>>

\* the response (or the error) goes back; the thread returns to the pool
thread_respond ==
    \E t \in Threads :
        /\ threads[t].pc = "done"
        /\ threads' = [threads EXCEPT ![t] = IdleThread]
        /\ UNCHANGED <<files, lastPoll, trace, torn, lastWriter>>

\* date strings handed to the nclat helper: calendar days, and days no month
\* has, written year first or day first, padded or not, with each separator
NclatYears == {2023, 2024}
NclatMonths == {2, 3, 12}
NclatDays == {1, 9, 28, 29, 30, 31}
Separators == {"-", "/", "."}

Unpadded(n) == IF n < 10 THEN <<Digits[n + 1]>> ELSE Pad2(n)
YearFirst(y, m, d, sep) == Pad4(y) \o <<sep>> \o Pad2(m) \o <<sep>> \o Pad2(d)
DayFirst(y, m, d, sep) == Pad2(d) \o <<sep>> \o Pad2(m) \o <<sep>> \o Pad4(y)
YearFirstShort(y, m, d, sep) == Pad4(y) \o <<sep>> \o Unpadded(m) \o <<sep>> \o Unpadded(d)
DayFirstShort(y, m, d, sep) == Unpadded(d) \o <<sep>> \o Unpadded(m) \o <<sep>> \o Pad4(y)

NclatInputs ==
    UNION {{YearFirst(y, m, d, sep), DayFirst(y, m, d, sep),
            YearFirstShort(y, m, d, sep), DayFirstShort(y, m, d, sep)} :
           <<y, m, d, sep>> \in NclatYears \X NclatMonths \X NclatDays \X Separators}

\* the helper applied to a string, and again to what it returned
nclat_normalize ==
    /\ trace.op = "idle"
    /\ \E date_str \in NclatInputs :
         LET once == convert_date_for_nclat(date_str)
         IN  trace' = [op |-> "convert_date_for_nclat",
                       arg |-> date_str,
                       once |-> once,
                       twice |-> IF once.ok THEN convert_date_for_nclat(once.val)
                                 ELSE Raised]
    /\ UNCHANGED <<files, lastPoll, torn, threads, lastWriter>>

SearchNext == search_cases \/ search_cases_range \/ cerc_search \/ Respond

MonitorNext == supreme_monitor \/ Respond

NclatNext == nclat_normalize \/ Respond

ConcNext ==
    \/ thread_scrape \/ thread_exists \/ thread_load
    \/ thread_open_w \/ thread_dump \/ thread_respond

Next == SearchNext \/ MonitorNext \/ NclatNext \/ ConcNext

\* the search endpoints alone (they never touch the snapshot files)
SearchSpec == Init /\ [][SearchNext]_vars

\* the monitor endpoint alone
MonitorSpec == Init /\ [][MonitorNext]_vars

\* the nclat date helper alone
NclatSpec == Init /\ [][NclatNext]_vars

\* the monitor endpoint served by two worker threads
ConcSpec == Init /\ [][ConcNext]_vars

Spec == Init /\ [][Next]_vars

----------------------------------------------------------------------------
(* Vocabulary of the properties *)

IsSearch == trace.op \in {"search_cases", "search_cases_range"}

IsPoll == trace.op = "supreme_monitor"

\* the date strings of the request, in the order the adapters take them
CallerDates ==
    IF trace.op = "search_cases" THEN <<trace.request.date.str>>
    ELSE <<trace.request.startDate, trace.request.endDate>>

\* a single-date request that carries a non-empty date, or any range request
DateSupplied ==
    \/ trace.op = "search_cases_range"
    \/ trace.request.date.present /\ trace.request.date.str # <<>>

CallsTo(b) == SelectSeq(trace.calls, LAMBDA c : c.backend = b)

Invoked(b) == CallsTo(b) # <<>>

\* what backend b contributed: the list its call returned, nothing if it was
\* not called or its call raised
Contribution(b) ==
    IF \E i \in DOMAIN trace.calls : trace.calls[i].backend = b /\ trace.calls[i].ok
    THEN LET i == CHOOSE j \in DOMAIN trace.calls :
                      trace.calls[j].backend = b /\ trace.calls[j].ok
         IN  trace.calls[i].ret
    ELSE <<>>

\* s is the ten-character rendering DD<sep>MM<sep>YYYY of the calendar day that
\* the caller's string denotes when read with format `from`
Renders(s, fmt, caller, from) ==
    /\ Len(s) = 10
    /\ strptime(s, fmt).ok
    /\ strptime(s, fmt) = strptime(caller, from)

----------------------------------------------------------------------------
(* Properties of the search dispatcher, checked under SearchSpec *)

\* C1: a search or range search with court = "all" returns exactly the
\* concatenation, in the order supreme, delhi, bombay, of the lists returned by
\* the adapters that did not fail, each in its own order, nothing removed or
\* reordered.
C1_AllIsConcatenation ==
    (IsSearch /\ trace.request.court = "all") =>
        /\ ~trace.raised
        /\ trace.results =
             Contribution("supreme") \o Contribution("delhi") \o Contribution("bombay")

\* supreme and bombay both return a list holding the same record, delhi fails
C1_Witness ==
    /\ trace.op = "search_cases"
    /\ trace.request.court = "all"
    /\ Len(trace.calls) = 3
    /\ trace.calls[1].ok /\ trace.calls[1].ret = <<RecB, RecA>>
    /\ ~trace.calls[2].ok
    /\ trace.calls[3].ok /\ trace.calls[3].ret = <<RecA>>
    /\ trace.results = <<RecB, RecA, RecA>>

\* the adapters the data model says a court selector selects
SpecSelected(court) ==
    IF court = "all" THEN {"supreme", "delhi", "bombay"} ELSE {court}

\* C2 as stated: every backend selected by court is invoked exactly once and the
\* request returns a list, whatever fails.
C2_Original ==
    IsSearch =>
        /\ ~trace.raised
        /\ \A b \in SpecSelected(trace.request.court) : Len(CallsTo(b)) = 1

\* the date helper calls made for backend b all returned
ConversionsSucceed(b) ==
    LET fn == CASE b = "delhi" -> "convert_date_for_delhi"
                [] b = "bombay" -> "convert_date_for_bombay"
                [] b = "nclat" -> "convert_date_for_nclat"
                [] OTHER -> "none"
    IN  \A i \in DOMAIN trace.norms : trace.norms[i].fn = fn => trace.norms[i].ok

\* C2 (amended): the request always returns a list; no adapter is invoked more
\* than once; and an adapter is invoked exactly when the dispatcher has a block
\* for it under this court selector, a date was supplied and the date helper
\* calls made for it returned -- whatever the other adapters did.
C2_FailureIsolation ==
    IsSearch =>
        /\ ~trace.raised
        /\ \A b \in {"supreme", "delhi", "bombay", "nclat", "cerc"} :
             /\ Len(CallsTo(b)) <= 1
             /\ Invoked(b) <=>
                  /\ b \in SpecSelected(trace.request.court) \ {"cerc"}
                  /\ DateSupplied
                  /\ ConversionsSucceed(b)

\* every adapter raises, and each of the three was still called
C2_Witness ==
    /\ trace.op = "search_cases_range"
    /\ trace.request.court = "all"
    /\ Len(trace.calls) = 3
    /\ \A i \in 1..3 : ~trace.calls[i].ok
    /\ trace.results = <<>>
    /\ ~trace.raised

\* C6: a single-date search without a date returns an empty list, calls no
\* adapter and no date helper, whatever the court selector.
C6_NoDateNoDispatch ==
    (trace.op = "search_cases"
        /\ (~trace.request.date.present \/ trace.request.date.str = <<>>)) =>
        /\ ~trace.raised
        /\ trace.results = <<>>
        /\ trace.calls = <<>>
        /\ trace.norms = <<>>

C6_Witness ==
    /\ trace.op = "search_cases"
    /\ trace.request.court = "all"
    /\ trace.request.date = Some(<<>>)
    /\ trace.results = <<>>
    /\ trace.calls = <<>>

C8_Original ==
    (IsSearch /\ trace.request.court \in {"supreme", "delhi", "bombay", "nclat"}) =>
        \A i \in DOMAIN trace.calls : trace.calls[i].dates = CallerDates

\* what the tribunal adapter is handed for a caller's string
NclatRendering(s, caller) ==
    IF Contains(caller, "/") THEN s = caller
    ELSE \/ Renders(s, FmtNclat, caller, FmtBombay)
         \/ Renders(s, FmtNclat, caller, FmtISO)

\* C8 (amended): when court names supreme, delhi or bombay the adapter receives
\* exactly the caller's date string(s) and no date helper runs; when court names
\* nclat each date goes through convert_date_for_nclat, so the adapter receives
\* the caller's string only if it contains "/", otherwise its DD/MM/YYYY
\* rendering, and a single-date request hands that one date over as both start
\* and end.
C8_PassThroughExceptNclat ==
    /\ (IsSearch /\ trace.request.court \in {"supreme", "delhi", "bombay"}) =>
          /\ trace.norms = <<>>
          /\ \A i \in DOMAIN trace.calls : trace.calls[i].dates = CallerDates
    /\ (IsSearch /\ trace.request.court = "nclat") =>
          \A i \in DOMAIN trace.calls :
              LET c == trace.calls[i]
                  first == CallerDates[1]
                  last == CallerDates[Len(CallerDates)]
              IN  /\ Len(c.dates) = 2
                  /\ NclatRendering(c.dates[1], first)
                  /\ NclatRendering(c.dates[2], last)
                  /\ first = IsoDate => c.dates[1] = SlashDate
                  /\ first = DashDate => c.dates[1] = SlashDate

\* delhi alone is handed a date that is not in its own format, untouched
C8_Witness ==
    /\ trace.op = "search_cases"
    /\ trace.request.court = "delhi"
    /\ trace.request.date = Some(IsoShort)
    /\ Len(trace.calls) = 1
    /\ trace.calls[1].backend = "delhi"
    /\ trace.calls[1].dates = <<IsoShort>>

C10_InvalidDateSurfaces ==
    (IsSearch /\ \E i \in DOMAIN trace.norms : ~trace.norms[i].ok) => trace.raised

----------------------------------------------------------------------------
(* Properties of the top-court monitor, checked under MonitorSpec *)

\* the list this poll's scrape returned (C)
Scraped == trace.calls[1].ret

\* the stored snapshot of a MonitorKey, absent read as the empty list
Snapshot(keyword, mode) ==
    LET path == PathJoin(DATA_DIR, Filename(Strip(keyword), mode))
    IN  IF path \in DOMAIN files THEN json_load(files[path]) ELSE <<>>

\* this poll directly follows a poll of the same MonitorKey whose scrape
\* returned the same list
RepeatsLastPoll ==
    /\ IsPoll /\ ~trace.raised
    /\ trace.prev.polled /\ trace.prev.ok
    /\ trace.prev.keyword = trace.request.keyword
    /\ trace.prev.mode = trace.request.mode
    /\ trace.prev.scraped = Scraped

\* C3: the second of two successive polls of one MonitorKey whose scrapes
\* return the same list reports no_change and writes no snapshot, whatever the
\* list, the empty one included.
C3_SecondPollUnchanged ==
    RepeatsLastPoll =>
        /\ trace.response.status = "no_change"
        /\ trace.response.count = Len(Scraped)
        /\ trace.writes = <<>>

C3_Witness ==
    /\ RepeatsLastPoll
    /\ Scraped = <<RecA, RecB, RecC>>
    /\ trace.response.status = "no_change"
    /\ trace.writes = <<>>

\* the elements of C, in C's order, that equal no element of P as whole records
RECURSIVE NotIn(_, _)
NotIn(C, P) ==
    IF C = <<>> THEN <<>>
    ELSE (IF \E i \in DOMAIN P : P[i] = Head(C) THEN <<>> ELSE <<Head(C)>>)
             \o NotIn(Tail(C), P)

\* C4: a poll whose scrape C differs from the stored snapshot P reports
\* updated, total = |C| and as new_items exactly the elements of C, in C's
\* order, that equal no element of P as whole records; P = [a, b], C = [a, b, c]
\* gives [c], and a record differing from a stored one in one field is new.
C4_DeltaIsStructural ==
    (IsPoll /\ ~trace.raised /\ Scraped # trace.old_data) =>
        /\ trace.response.status = "updated"
        /\ trace.response.total = Len(Scraped)
        /\ trace.response.new_items = NotIn(Scraped, trace.old_data)
        /\ (trace.old_data = <<RecA, RecB>> /\ Scraped = <<RecA, RecB, RecC>>) =>
              trace.response.new_items = <<RecC>>
        /\ (trace.old_data = <<RecA>> /\ Scraped = <<RecA, RecA2>>) =>
              trace.response.new_items = <<RecA2>>

C4_Witness ==
    /\ IsPoll /\ ~trace.raised
    /\ trace.old_data = <<RecA, RecB>>
    /\ Scraped = <<RecA, RecB, RecC>>
    /\ trace.response.status = "updated"
    /\ trace.response.new_items = <<RecC>>
    /\ trace.response.total = 3

\* C5: after a poll that returned a response, the stored snapshot of its
\* MonitorKey is exactly the list that poll's scrape returned: the previous
\* snapshot is replaced, nothing of it is kept.
C5_SnapshotIsLatestScrape ==
    (lastPoll.polled /\ lastPoll.ok) =>
        Snapshot(lastPoll.keyword, lastPoll.mode) = lastPoll.scraped

\* the stored [a] is replaced by [a'], a does not stay
C5_Witness ==
    /\ IsPoll /\ ~trace.raised
    /\ trace.old_data = <<RecA>>
    /\ Scraped = <<RecA2>>
    /\ Snapshot(trace.request.keyword, trace.request.mode) = <<RecA2>>

----------------------------------------------------------------------------
(* Further properties of the dispatcher (SearchSpec) and of the monitor    *)
(* (MonitorSpec)                                                           *)

\* C11: a backend failure during a top-court monitor poll or a
\* regulatory-commission search is caught: the operation returns an empty
\* result instead of raising.
C11_BackendFailureCaught ==
    ((IsPoll \/ trace.op = "cerc_search") /\ ~trace.calls[1].ok) => ~trace.raised

\* the stored snapshot of a MonitorKey in a given directory content
SnapshotIn(fs, keyword, mode) ==
    LET path == PathJoin(DATA_DIR, Filename(Strip(keyword), mode))
    IN  IF path \in DOMAIN fs THEN json_load(fs[path]) ELSE <<>>

\* a poll is answered in this step
PollStep == trace.op = "idle" /\ trace'.op = "supreme_monitor"

\* C13: a poll of one MonitorKey leaves the stored snapshot of every other
\* MonitorKey as it was.
C13_KeysDoNotInterfere ==
    [][PollStep =>
          \A r \in MonitorRequest :
              (r.keyword # trace'.request.keyword \/ r.mode # trace'.request.mode) =>
                  SnapshotIn(files', r.keyword, r.mode) = SnapshotIn(files, r.keyword, r.mode)]_vars

\* C14 as stated: after a completed poll of a key a stored snapshot exists for
\* the key, whatever the scrape returned.
C14_Original ==
    (lastPoll.polled /\ lastPoll.ok) =>
        PathJoin(DATA_DIR, Filename(Strip(lastPoll.keyword), lastPoll.mode)) \in DOMAIN files

\* C14 (amended): a completed poll whose scrape differs from the stored
\* snapshot (absent read as empty) leaves the file holding exactly the scrape,
\* so the first poll of a key creates the snapshot when its scrape is not
\* empty; a poll whose scrape equals the stored snapshot changes nothing, so a
\* first poll with an empty scrape creates no file; no step removes a file.
C14_CreatedOnFirstChange ==
    [][/\ DOMAIN files \subseteq DOMAIN files'
       /\ (PollStep /\ ~trace'.raised) =>
             LET C == trace'.calls[1].ret
                 P == SnapshotIn(files, trace'.request.keyword, trace'.request.mode)
             IN  /\ C # P => /\ trace'.path \in DOMAIN files'
                             /\ files'[trace'.path] = json_dump(C)
                 /\ C = P => files' = files
                 /\ C # <<>> => trace'.path \in DOMAIN files']_vars

\* the first poll of a key returns an empty scrape: no_change, and no file
C14_Witness ==
    /\ IsPoll /\ ~trace.raised
    /\ Scraped = <<>>
    /\ trace.response.status = "no_change"
    /\ trace.path \notin DOMAIN files

\* C15 as stated: a single-date search invokes only `search` entry points and
\* a range search only `search_range` entry points.
C15_Original ==
    /\ trace.op = "search_cases" =>
          \A i \in DOMAIN trace.calls : trace.calls[i].entry = "search"
    /\ trace.op = "search_cases_range" =>
          \A i \in DOMAIN trace.calls : trace.calls[i].entry = "search_range"

\* C15 (amended): a single-date search invokes the `search` entry point of
\* supreme, delhi and bombay, and for nclat the `search_range` entry point with
\* the one date as both start and end; a range search invokes only
\* `search_range` entry points, once per adapter, with the request's start and
\* end, never a pair of single-date calls.
C15_EntryPoints ==
    /\ trace.op = "search_cases" =>
          \A i \in DOMAIN trace.calls :
              LET c == trace.calls[i]
              IN  IF c.backend = "nclat"
                  THEN c.entry = "search_range" /\ Len(c.dates) = 2 /\ c.dates[1] = c.dates[2]
                  ELSE c.entry = "search" /\ Len(c.dates) = 1
    /\ trace.op = "search_cases_range" =>
          /\ \A i \in DOMAIN trace.calls :
                trace.calls[i].entry = "search_range" /\ Len(trace.calls[i].dates) = 2
          /\ \A i, j \in DOMAIN trace.calls :
                trace.calls[i].backend = trace.calls[j].backend => i = j

C15_Witness ==
    /\ trace.op = "search_cases"
    /\ trace.request.court = "nclat"
    /\ trace.request.date = Some(IsoDate)
    /\ Len(trace.calls) = 1
    /\ trace.calls[1].entry = "search_range"
    /\ trace.calls[1].dates = <<SlashDate, SlashDate>>

\* C18: a poll reports updated and rewrites the snapshot exactly when the
\* scrape differs from the stored snapshot as an ordered list; a scrape that
\* only removes or reorders stored records is updated with no new item.
C18_UpdatedIffSequenceDiffers ==
    (IsPoll /\ ~trace.raised) =>
        /\ trace.response.status = "updated" <=> Scraped # trace.old_data
        /\ trace.response.status = "no_change" <=> Scraped = trace.old_data
        /\ Scraped # trace.old_data =>
              trace.writes = <<[path |-> trace.path, doc |-> json_dump(Scraped)]>>
        /\ Scraped = trace.old_data => trace.writes = <<>>
        /\ (Scraped # trace.old_data /\ Range(Scraped) \subseteq Range(trace.old_data)) =>
              trace.response.new_items = <<>>

\* the stored [a, b] comes back as [b, a]
C18_Witness ==
    /\ IsPoll /\ ~trace.raised
    /\ trace.old_data = <<RecA, RecB>>
    /\ Scraped = <<RecB, RecA>>
    /\ trace.response.status = "updated"
    /\ trace.response.new_items = <<>>
    /\ Len(trace.writes) = 1
    /\ Snapshot(trace.request.keyword, trace.request.mode) = <<RecB, RecA>>

\* C19: a poll whose scrape fails leaves every snapshot file as it was (none
\* created, emptied or rewritten) and ends in the error; a poll whose scrape
\* returns computes its delta against the snapshot as stored before it.
C19_FailedScrapeTouchesNothing ==
    [][PollStep =>
          /\ ~trace'.calls[1].ok =>
                files' = files /\ trace'.writes = <<>> /\ trace'.raised
          /\ trace'.calls[1].ok =>
                trace'.old_data =
                    SnapshotIn(files, trace'.request.keyword, trace'.request.mode)]_vars

\* the scrape fails while a snapshot of the key is stored
C19_Witness ==
    /\ IsPoll /\ trace.raised
    /\ ~trace.calls[1].ok
    /\ trace.writes = <<>>
    /\ Snapshot(trace.request.keyword, trace.request.mode) = <<RecA, RecB>>

----------------------------------------------------------------------------
(* The nclat date helper on its own (NclatSpec)                            *)

\* C20: the nclat helper turns the ISO form and the DD-MM-YYYY form of one
\* calendar day into the same DD/MM/YYYY string, returns a string that holds a
\* "/" unchanged, and applied to its own result returns that result.
C20_NclatNormalizer ==
    trace.op = "convert_date_for_nclat" =>
        /\ Contains(trace.arg, "/") => trace.once = Returned(trace.arg)
        /\ \A y \in NclatYears, m \in NclatMonths, d \in NclatDays :
              (/\ d <= DaysInMonth(y, m)
               /\ trace.arg \in {YearFirst(y, m, d, "-"), DayFirst(y, m, d, "-")})
               => trace.once = Returned(DayFirst(y, m, d, "/"))
        /\ trace.once.ok => trace.twice = trace.once

\* 29-02-2024 has become 29/02/2024, and stays so
C20_Witness ==
    /\ trace.op = "convert_date_for_nclat"
    /\ trace.arg = DayFirst(2024, 2, 29, "-")
    /\ trace.once = Returned(DayFirst(2024, 2, 29, "/"))
    /\ trace.twice = trace.once

----------------------------------------------------------------------------
(* Polls on two worker threads (ConcSpec)                                  *)

Finished(t) == threads[t].pc = "done"

\* C12: a load that runs while another poll is overwriting the snapshot of the
\* same key reads a complete snapshot, the previous one or the new one: never
\* an empty, cut or partly written file.
C12_SaveAtomicForReaders ==
    \A t \in Threads : threads[t].loaded # "torn"

\* two finished polls of one key that loaded the same snapshot and scraped the
\* same list, other than the snapshot
Raced(t, u) ==
    /\ t # u
    /\ Finished(t) /\ Finished(u)
    /\ ~threads[t].raised /\ ~threads[u].raised
    /\ threads[t].request = threads[u].request
    /\ threads[t].old_data = threads[u].old_data
    /\ threads[t].all_results = threads[u].all_results
    /\ threads[t].all_results # threads[t].old_data

\* C16: the load and the write of a poll are two steps, and two polls of one
\* key can both load before either writes: whenever two finished polls of a
\* key have loaded the same old snapshot P and scraped the same C # P, both
\* report updated with the same new items (those of C not in P), both have
\* written, and the file holds the list of the thread that closed it last;
\* and whenever no write is under way a file that parses holds the list of the
\* last writer.
C16_SameKeyRace ==
    /\ \A t, u \in Threads :
          Raced(t, u) =>
              /\ threads[t].status = "updated" /\ threads[u].status = "updated"
              /\ threads[t].new_items = NotIn(threads[t].all_results, threads[t].old_data)
              /\ threads[u].new_items = threads[t].new_items
              /\ threads[t].wrote /\ threads[u].wrote
              /\ lastWriter.thread \in {t, u}
              /\ threads[t].path \notin DOMAIN torn
              /\ json_load(files[threads[t].path]) = lastWriter.all_results
              /\ lastWriter.all_results = threads[t].all_results
    /\ \A path \in DOMAIN files \ DOMAIN torn :
          (\A t \in Threads : threads[t].pc = "dump" => threads[t].path # path) =>
              json_load(files[path]) = lastWriter.all_results

\* both threads loaded [A-1], both scraped [A-1, B-2], both answered updated
\* with B-2 as new; thread 1 closed the file last
C16_Witness ==
    /\ Raced(1, 2)
    /\ threads[1].old_data = <<RecA>>
    /\ threads[1].all_results = <<RecA, RecB>>
    /\ threads[1].new_items = <<RecB>> /\ threads[2].new_items = <<RecB>>
    /\ threads[1].status = "updated" /\ threads[2].status = "updated"
    /\ lastWriter.thread = 1
    /\ json_load(files[threads[1].path]) = <<RecA, RecB>>

\* C17: a poll whose snapshot file cannot be parsed, or whose snapshot file
\* cannot be opened for writing, ends in the error: it reports neither
\* no_change nor updated, and a poll that does report one of them has read a
\* whole snapshot or found none.
C17_SnapshotIOFailureIsFatal ==
    \A t \in Threads :
        Finished(t) =>
            /\ threads[t].loaded = "torn" =>
                  threads[t].raised /\ threads[t].status = "none" /\ ~threads[t].wrote
            /\ (/\ threads[t].loaded \in {"absent", "whole"}
                /\ threads[t].all_results # threads[t].old_data
                /\ ~CanOpenForWrite(threads[t].path)) =>
                  threads[t].raised /\ threads[t].status = "none" /\ ~threads[t].wrote
            /\ threads[t].status \in {"no_change", "updated"} =>
                  /\ ~threads[t].raised
                  /\ threads[t].loaded \in {"absent", "whole"}
                  /\ threads[t].status = "updated" <=> threads[t].wrote

\* one poll has read a file cut by a writer, another could not open its file
C17_Witness ==
    \E t, u \in Threads :
        /\ Finished(t) /\ threads[t].loaded = "torn" /\ threads[t].raised
        /\ Finished(u) /\ threads[u].request.keyword = KwSlash
        /\ threads[u].all_results = <<RecA>> /\ threads[u].loaded = "absent"
        /\ threads[u].raised /\ threads[u].path \notin DOMAIN files

====
